---- MODULE Spec2Model ----
(***************************************************************************)
(* Simulation MCP server: the simulate_model tool (server.py) and the five *)
(* solvers of the model library (models/*.py).                             *)
(*                                                                         *)
(* Floats are fixed-point integers with FP units per 1.0.  A Python dict   *)
(* is the sequence of its <<key, value>> items in insertion order.         *)
(* Worker threads of the process run one simulate_model call each; the     *)
(* legacy NumPy generator (np.random) is the one object they share.        *)
(***************************************************************************)
EXTENDS Integers, Sequences, FiniteSets, TLC

\* ---------------------------------------------------------------- bounds
\* Fixed-point units per 1.0 (resolution of the float stand-in).
FP == 100
\* Requested step counts go up to PreviewCap + ExtraSteps.
ExtraSteps == 1
\* Size of the state space of the stand-in for the NumPy generator.
RngMod == 4
\* Requests a process takes in a concurrent run.
MaxRequests == 2
\* Step counts of the Monte Carlo requests of a concurrent run: 2..MaxMCSteps.
MaxMCSteps == 3
\* Seconds of the clock and values of the random suffix of a run_id: 0..MaxStamp.
MaxStamp == 1
\* Grid points of the longer runs made to compare solver results: the span
\* is GridSteps - 1 time units long.
GridSteps == 7
\* Longest height sequence handed to the landing loop.
ScanLen == 4

\* ------------------------------------------------------ program constants
PreviewCap == 100
MinSteps == 2
DefaultNPaths == 100

Threads == {1, 2}

\* ------------------------------------------------------------- arithmetic
Abs(x) == IF x < 0 THEN -x ELSE x
Min2(a, b) == IF a <= b THEN a ELSE b
Max2(a, b) == IF a >= b THEN a ELSE b
\* Truncating division (Python's float division, rounded toward zero).
Quot(a, b) == IF (a < 0) = (b < 0) THEN Abs(a) \div Abs(b) ELSE -(Abs(a) \div Abs(b))
\* Product and quotient of two fixed-point numbers.
Mul(a, b) == Quot(a * b, FP)
Div(a, b) == Quot(a * FP, b)
\* int(x) and float(n).
PyInt(x) == Quot(x, FP)
PyFloat(n) == n * FP

RECURSIVE SqrtSearch(_, _, _)
SqrtSearch(n, lo, hi) ==
    IF lo >= hi THEN lo
    ELSE LET mid == (lo + hi + 1) \div 2
         IN  IF mid * mid <= n THEN SqrtSearch(n, mid, hi)
                               ELSE SqrtSearch(n, lo, mid - 1)
\* Largest r with r*r <= n.
ISqrt(n) == SqrtSearch(n, 0, Min2(n, 46340))
\* np.sqrt of a fixed-point number.
Sqrt(x) == ISqrt(x * FP)

\* e, with v evaluated first: the loops below run their passes lo..hi in two
\* halves and finish the first half before the second starts.
After(v, e) == IF v = v THEN e ELSE e

\* Sum, maximum and minimum of s[lo..hi], halving the range.
RECURSIVE SumRange(_, _, _)
SumRange(s, lo, hi) ==
    IF lo > hi THEN 0
    ELSE IF lo = hi THEN s[lo]
    ELSE LET mid == (lo + hi) \div 2
         IN  SumRange(s, lo, mid) + SumRange(s, mid + 1, hi)
RECURSIVE MaxRange(_, _, _)
MaxRange(s, lo, hi) ==
    IF lo = hi THEN s[lo]
    ELSE LET mid == (lo + hi) \div 2
         IN  Max2(MaxRange(s, lo, mid), MaxRange(s, mid + 1, hi))
RECURSIVE MinRange(_, _, _)
MinRange(s, lo, hi) ==
    IF lo = hi THEN s[lo]
    ELSE LET mid == (lo + hi) \div 2
         IN  Min2(MinRange(s, lo, mid), MinRange(s, mid + 1, hi))
SumSeq(s) == SumRange(s, 1, Len(s))
MaxSeq(s) == MaxRange(s, 1, Len(s))
MinSeq(s) == MinRange(s, 1, Len(s))
MeanSeq(s) == Quot(SumSeq(s), Len(s))
\* ndarray.argmax / np.argmin: the first index holding the extreme value.
ArgMax(s) == CHOOSE i \in 1..Len(s) :
                /\ \A j \in 1..Len(s) : s[j] <= s[i]
                /\ \A j \in 1..(i - 1) : s[j] < s[i]
\* The last index holding the minimum: C16 must tell it from np.argmin.
ArgMin_last(s) == CHOOSE i \in 1..Len(s) :
                     /\ \A j \in 1..Len(s) : s[j] >= s[i]
                     /\ \A j \in (i + 1)..Len(s) : s[j] > s[i]
ArgMin(s) == CHOOSE i \in 1..Len(s) :
                /\ \A j \in 1..Len(s) : s[j] >= s[i]
                /\ \A j \in 1..(i - 1) : s[j] > s[i]

\* A function on 1..n as the tuple of its values.
AsTuple(f) == SubSeq(f, 1, Len(f))

\* ------------------------------------------------------------------ dicts
Keys(d) == [i \in 1..Len(d) |-> d[i][1]]
Has(d, k) == \E i \in 1..Len(d) : d[i][1] = k
\* dict.get(k, default)
Get(d, k, default) ==
    IF Has(d, k) THEN d[CHOOSE i \in 1..Len(d) : d[i][1] = k][2] ELSE default

\* np.linspace(start, stop, num): num points, the last one set to stop.
linspace(start, stop, num) ==
    LET div == num - 1
        step == IF div > 0 THEN Quot(stop - start, div) ELSE 0
    IN  AsTuple([i \in 1..num |-> IF num > 1 /\ i = num THEN stop
                                  ELSE (i - 1) * step + start])
\* ------------------------------------------------- the external integrator
\* What scipy's solve_ivp can report: sol.success, sol.success = False with
\* sol.message, or an exception of its own (a ValueError on a bad t_span).
IvpMessages == {"step size too small", "integration failed"}
IvpOutcomes == [kind : {"success"}, message : {""}]
                 \cup [kind : {"failure"}, message : IvpMessages]
                 \cup [kind : {"raise"}, message : {"bad t_span"}]

\* The right-hand sides the solvers hand to the integrator.
sir_rhs(p, y) ==
    << -Mul(Mul(p.beta, y[1]), y[2]),
       Mul(Mul(p.beta, y[1]), y[2]) - Mul(p.gamma, y[2]),
       Mul(p.gamma, y[2]) >>
lv_rhs(p, y) ==
    << Mul(p.alpha, y[1]) - Mul(Mul(p.beta, y[1]), y[2]),
       Mul(Mul(p.delta, y[1]), y[2]) - Mul(p.gamma, y[2]) >>
logistic_rhs(p, y) ==
    << Mul(Mul(p.r, y[1]), FP - Div(y[1], p.K)) >>
projectile_rhs(p, y) ==
    << y[3], y[4], 0, -p.g >>
Rhs(model, p, y) ==
    CASE model = "SIR" -> sir_rhs(p, y)
      [] model = "LotkaVolterra" -> lv_rhs(p, y)
      [] model = "Logistic" -> logistic_rhs(p, y)
      [] model = "Projectile" -> projectile_rhs(p, y)

\* Stand-in for a successful solve_ivp(rhs, t_span, y0, t_eval = t_eval): the
\* states at the points of t_eval, by forward Euler steps over the grid.
\* EulerStep appends the state at the next grid point; EulerStates takes the
\* steps lo..hi in order (in two halves).
EulerStep(model, p, t_eval, acc) ==
    LET j == Len(acc)
        prev == acc[j]
        dt == t_eval[j + 1] - t_eval[j]
        d == Rhs(model, p, prev)
    IN  Append(acc, AsTuple([k \in 1..Len(prev) |-> prev[k] + Mul(d[k], dt)]))
RECURSIVE EulerStates(_, _, _, _, _, _)
EulerStates(model, p, t_eval, acc, lo, hi) ==
    IF lo > hi THEN acc
    ELSE IF lo = hi THEN EulerStep(model, p, t_eval, acc)
    ELSE LET mid == (lo + hi) \div 2
             half == EulerStates(model, p, t_eval, acc, lo, mid)
         IN  After(half, EulerStates(model, p, t_eval, half, mid + 1, hi))
\* sol.t is t_eval and sol.y has shape (state, time).
solve_ivp(model, p, y0_vec, t_eval) ==
    LET states == EulerStates(model, p, t_eval, << y0_vec >>, 1, Len(t_eval) - 1)
    IN  [t |-> t_eval,
         y |-> AsTuple([k \in 1..Len(y0_vec) |->
                           AsTuple([j \in 1..Len(t_eval) |-> states[j][k]])])]

\* A metrics bundle is a dict whose values are tagged with their Python type.
Num(k, v) == << k, [type |-> "float", v |-> v] >>
IntNum(k, n) == << k, [type |-> "int", v |-> n] >>
Str(k, v) == << k, [type |-> "str", v |-> v] >>
Nested(k, v) == << k, [type |-> "dict", v |-> v] >>
Returned(t, Y, metrics) == [raised |-> FALSE, t |-> t, Y |-> Y, metrics |-> metrics, exc |-> << >>]
Raised(type, message) == [raised |-> TRUE, t |-> << >>, Y |-> << >>, metrics |-> << >>,
                          exc |-> << type, message >>]
\* A solver that raises without the integrator's message: C7 must tell it
\* from the code.
IvpRaise_no_message(outcome) == Raised("RuntimeError", "")
\* "if not sol.success: raise RuntimeError(sol.message)", or solve_ivp's own raise.
IvpRaise(outcome) ==
    IF outcome.kind = "failure" THEN Raised("RuntimeError", outcome.message)
    ELSE Raised("ValueError", outcome.message)

simulate_sir(parameters, y0, tspan, steps, outcome) ==
    LET p == [beta |-> Get(parameters, "beta", (3 * FP) \div 10),
              gamma |-> Get(parameters, "gamma", FP \div 10)]
        y0_vec == << Get(y0, "S", (99 * FP) \div 100), Get(y0, "I", FP \div 100),
                     Get(y0, "R", 0) >>
        t_eval == linspace(tspan[1], tspan[2], steps)
        sol == solve_ivp("SIR", p, y0_vec, t_eval)
        I_peak == MaxSeq(sol.y[2])
        t_peak == sol.t[ArgMax(sol.y[2])]
    IN  IF outcome.kind # "success" THEN IvpRaise(outcome)
        ELSE Returned(sol.t, sol.y,
                 << Num("I_peak", I_peak), Num("t_peak", t_peak),
                    Str("summary", << "Peak infection", I_peak, t_peak >>) >>)

simulate_lotka_volterra(parameters, y0, tspan, steps, outcome) ==
    LET p == [alpha |-> Get(parameters, "alpha", FP),
              beta |-> Get(parameters, "beta", FP \div 10),
              delta |-> Get(parameters, "delta", (75 * FP) \div 1000),
              gamma |-> Get(parameters, "gamma", (15 * FP) \div 10)]
        y0_vec == << Get(y0, "x", 10 * FP), Get(y0, "y", 5 * FP) >>
        t_eval == linspace(tspan[1], tspan[2], steps)
        sol == solve_ivp("LotkaVolterra", p, y0_vec, t_eval)
        x_vals == sol.y[1]
        y_vals == sol.y[2]
    IN  IF outcome.kind # "success" THEN IvpRaise(outcome)
        ELSE Returned(sol.t, sol.y,
                 << Num("x_max", MaxSeq(x_vals)), Num("x_min", MinSeq(x_vals)),
                    Num("x_mean", MeanSeq(x_vals)),
                    Num("y_max", MaxSeq(y_vals)), Num("y_min", MinSeq(y_vals)),
                    Num("y_mean", MeanSeq(y_vals)),
                    Str("summary", << "Prey/Predator", MinSeq(x_vals), MaxSeq(x_vals),
                                      MeanSeq(x_vals), MinSeq(y_vals), MaxSeq(y_vals),
                                      MeanSeq(y_vals) >>) >>)

simulate_logistic(parameters, y0, tspan, steps, outcome) ==
    LET p == [r |-> Get(parameters, "r", FP \div 2),
              K |-> Get(parameters, "K", 100 * FP)]
        y0_vec == << Get(y0, "P", 10 * FP) >>
        t_eval == linspace(tspan[1], tspan[2], steps)
        sol == solve_ivp("Logistic", p, y0_vec, t_eval)
        P_vals == sol.y[1]
        halfway_point == Mul(p.K, FP \div 2)
        idx_halfway == ArgMin([j \in 1..Len(P_vals) |-> Abs(P_vals[j] - halfway_point)])
        ninety_percent == Mul(p.K, (9 * FP) \div 10)
        idx_ninety == ArgMin([j \in 1..Len(P_vals) |-> Abs(P_vals[j] - ninety_percent)])
    IN  IF outcome.kind # "success" THEN IvpRaise(outcome)
        ELSE Returned(sol.t, sol.y,
                 << Num("P_initial", P_vals[1]), Num("P_final", P_vals[Len(P_vals)]),
                    Num("P_max", MaxSeq(P_vals)), Num("K", p.K),
                    Num("t_halfway", sol.t[idx_halfway]),
                    Num("t_ninety", sol.t[idx_ninety]),
                    Str("summary", << "Population grows", P_vals[1], P_vals[Len(P_vals)],
                                      p.K, sol.t[idx_ninety] >>) >>)

\* np.cos and np.sin of np.deg2rad(angle), in thousandths, for the launch
\* angles the requests use.
TrigMilli == [a \in {0, 30, 45, 60, 90} |->
                CASE a = 0 -> [cos |-> 1000, sin |-> 0]
                  [] a = 30 -> [cos |-> 866, sin |-> 500]
                  [] a = 45 -> [cos |-> 707, sin |-> 707]
                  [] a = 60 -> [cos |-> 500, sin |-> 866]
                  [] a = 90 -> [cos |-> 0, sin |-> 1000]]
CosDeg(angle_deg) == Quot(TrigMilli[PyInt(angle_deg)].cos * FP, 1000)
SinDeg(angle_deg) == Quot(TrigMilli[PyInt(angle_deg)].sin * FP, 1000)

\* The loop of projectile.py, "for i in range(1, len(y_vals))": LandingPass is
\* one pass (i is 1-based here), LandingLoop the passes lo..hi in order from
\* landing_idx (in two halves).  LandingPass_first_only is a loop that stops
\* at the first descent: C15 must tell it from the code.
LandingPass_first_only(y_vals, initial_height, i, landing_idx) ==
    IF y_vals[i] < initial_height /\ y_vals[i - 1] >= initial_height
       /\ \A k \in 2..(i - 1) : ~(y_vals[k] < initial_height /\ y_vals[k - 1] >= initial_height)
    THEN i ELSE landing_idx
LandingPass(y_vals, initial_height, i, landing_idx) ==
    IF y_vals[i] < initial_height /\ y_vals[i - 1] >= initial_height
    THEN i ELSE landing_idx
RECURSIVE LandingLoop(_, _, _, _, _)
LandingLoop(y_vals, initial_height, landing_idx, lo, hi) ==
    IF lo > hi THEN landing_idx
    ELSE IF lo = hi THEN LandingPass(y_vals, initial_height, lo, landing_idx)
    ELSE LET mid == (lo + hi) \div 2
             half == LandingLoop(y_vals, initial_height, landing_idx, lo, mid)
         IN  After(half, LandingLoop(y_vals, initial_height, half, mid + 1, hi))

\* A rule that takes every supplied component verbatim, zero included: C13
\* must tell it from the code.
InitialVelocity_verbatim(y0, name, calc) == IF Has(y0, name) THEN Get(y0, name, 0) ELSE calc
\* Lines 49-58: a velocity component of the initial state.
InitialVelocity(y0, name, calc) ==
    IF Has(y0, name) /\ Get(y0, name, 0) # 0 THEN Get(y0, name, 0) ELSE calc

simulate_projectile(parameters, y0, tspan, steps, outcome) ==
    LET p == [g |-> Get(parameters, "g", (981 * FP) \div 100)]
        v0 == Get(parameters, "v0", 20 * FP)
        angle_deg == Get(parameters, "angle", 45 * FP)
        vx0_calc == Mul(v0, CosDeg(angle_deg))
        vy0_calc == Mul(v0, SinDeg(angle_deg))
        x0 == Get(y0, "x", 0)
        y0_val == Get(y0, "y", 0)
        vx0 == InitialVelocity(y0, "vx", vx0_calc)
        vy0 == InitialVelocity(y0, "vy", vy0_calc)
        y0_vec == << x0, y0_val, vx0, vy0 >>
        t_eval == linspace(tspan[1], tspan[2], steps)
        sol == solve_ivp("Projectile", p, y0_vec, t_eval)
        x_vals == sol.y[1]
        y_vals == sol.y[2]
        vx_vals == sol.y[3]
        vy_vals == sol.y[4]
        y_max == MaxSeq(y_vals)
        t_max_height == sol.t[ArgMax(y_vals)]
        landing_idx == LandingLoop(y_vals, y0_val, Len(y_vals), 2, Len(y_vals))
        v_total == AsTuple([j \in 1..Len(vx_vals) |->
                       ISqrt(vx_vals[j] * vx_vals[j] + vy_vals[j] * vy_vals[j])])
    IN  IF outcome.kind # "success" THEN IvpRaise(outcome)
        ELSE Returned(sol.t, sol.y,
                 << Num("max_height", y_max), Num("t_max_height", t_max_height),
                    Num("range", x_vals[landing_idx]), Num("t_landing", sol.t[landing_idx]),
                    Num("v_initial", v0), Num("v_final", v_total[landing_idx]),
                    Num("v_max", MaxSeq(v_total)), Num("angle_deg", angle_deg),
                    Str("summary", << "Projectile", y_max, t_max_height,
                                      x_vals[landing_idx], sol.t[landing_idx] >>) >>)
\* ------------------------------------------------ the process-wide generator
\* Stand-in for the legacy NumPy generator behind np.random.*: a position in
\* a fixed stream.  The process starts it from OS entropy.
Entropy == 0..(RngMod - 1)
\* np.random.seed(int(seed))
np_random_seed(seed) == PyInt(seed) % RngMod
\* One standard normal variate at stream position x.
StdNormal(x) == Quot((2 * (x % RngMod) - (RngMod - 1)) * FP, 8)
\* np.random.normal(loc, scale, size) called with the generator at s.
np_random_normal(loc, scale, size, s) ==
    [draws |-> [j \in 1..size |-> loc + Mul(scale, StdNormal(s + j - 1))],
     state |-> (s + size) % RngMod]

\* Stand-in for np.exp: the Taylor polynomial of degree 2, exact at 0.
Exp(x) == FP + x + Quot(Mul(x, x), 2)

Sorted(s) == SortSeq(s, LAMBDA a, b : a < b)
\* np.percentile(a, q): linear interpolation between the closest ranks.
Percentile(a, q) ==
    LET srt == Sorted(a)
        n == Len(a)
        lo == (q * (n - 1)) \div 100
        frac == (q * (n - 1)) % 100
        hi == Min2(lo + 1, n - 1)
    IN  srt[lo + 1] + Quot((srt[hi + 1] - srt[lo + 1]) * frac, 100)
\* np.median
Median(a) ==
    LET srt == Sorted(a)
        n == Len(a)
    IN  IF n % 2 = 1 THEN srt[(n + 1) \div 2]
        ELSE Quot(srt[n \div 2] + srt[n \div 2 + 1], 2)
\* np.std
Std(a) ==
    LET m == MeanSeq(a)
    IN  Sqrt(MeanSeq([j \in 1..Len(a) |-> Mul(a[j] - m, a[j] - m)]))

\* simulate_monte_carlo up to its loop: the parameters, the seeding of the
\* process-wide generator (s is its state), the grid and the zeroed paths.
mc_setup(parameters, y0, tspan, steps, s) ==
    LET n_paths == PyInt(Get(parameters, "n_paths", PyFloat(DefaultNPaths)))
        S0 == Get(y0, "S", 100 * FP)
    IN  [mu |-> Get(parameters, "mu", FP \div 10),
         sigma |-> Get(parameters, "sigma", (2 * FP) \div 10),
         n_paths |-> n_paths,
         S0 |-> S0,
         t |-> linspace(tspan[1], tspan[2], steps),
         dt |-> IF steps > 1 THEN Quot(tspan[2] - tspan[1], steps - 1) ELSE 0,
         paths |-> AsTuple([q \in 1..n_paths |->
                      AsTuple([j \in 1..steps |-> IF j = 1 THEN S0 ELSE 0])]),
         state |-> IF Has(parameters, "seed")
                   THEN np_random_seed(Get(parameters, "seed", 0)) ELSE s]

\* One pass of "for i in range(1, steps)": column i (0-based) of the paths,
\* drawn from the generator at s.
mc_iter(loc, paths, i, s) ==
    LET rnd == np_random_normal(0, Sqrt(loc.dt), loc.n_paths, s)
        drift == Mul(loc.mu - Mul(FP \div 2, Mul(loc.sigma, loc.sigma)), loc.dt)
    IN  [paths |-> AsTuple([q \in 1..loc.n_paths |->
                      AsTuple([paths[q] EXCEPT ![i + 1] =
                          Mul(paths[q][i], Exp(drift + Mul(loc.sigma, rnd.draws[q])))])]),
         state |-> rnd.state]

\* The passes lo..hi of the loop in order, from the paths and the generator
\* state of st, when no other thread draws in between (in two
\* halves).
RECURSIVE mc_loop(_, _, _, _)
mc_loop(loc, st, lo, hi) ==
    IF lo > hi THEN st
    ELSE IF lo = hi THEN mc_iter(loc, st.paths, lo, st.state)
    ELSE LET mid == (lo + hi) \div 2
             half == mc_loop(loc, st, lo, mid)
         IN  After(half, mc_loop(loc, half, mid + 1, hi))

\* A count of the paths that end at or above S0: C17 must tell it from the
\* code.
InProfit_or_even(final, S0) == final >= S0
\* Line 88: paths[:, -1] > S0
InProfit(final, S0) == final > S0

\* simulate_monte_carlo after its loop: statistics, metrics, the mean path.
\* With no path at all np.min (line 66) has nothing to reduce and raises.
mc_finish(loc, paths) ==
    LET steps == Len(loc.t)
        col(j) == [q \in 1..loc.n_paths |-> paths[q][j]]
        S_mean == AsTuple([j \in 1..steps |-> MeanSeq(col(j))])
        final_mean == S_mean[steps]
        final_median == Median(col(steps))
        final_std == Std(col(steps))
        final_min == MinSeq(col(steps))
        final_max == MaxSeq(col(steps))
        expected_return == Div(final_mean - loc.S0, loc.S0) * 100
        max_return == Div(final_max - loc.S0, loc.S0) * 100
        min_return == Div(final_min - loc.S0, loc.S0) * 100
        prob_profit ==
            Quot(PyFloat(Cardinality({q \in 1..loc.n_paths :
                                         InProfit(paths[q][steps], loc.S0)})),
                 loc.n_paths) * 100
    IN  IF loc.n_paths = 0
        THEN Raised("ValueError", "zero-size array to reduction operation minimum")
        ELSE
        Returned(loc.t, << S_mean >>,
            << Num("S_initial", loc.S0), Num("S_final_mean", final_mean),
               Num("S_final_median", final_median), Num("S_final_std", final_std),
               Num("S_final_min", final_min), Num("S_final_max", final_max),
               Num("expected_return_pct", expected_return),
               Num("max_return_pct", max_return), Num("min_return_pct", min_return),
               Num("prob_profit_pct", prob_profit),
               IntNum("n_paths", loc.n_paths), Num("mu", loc.mu), Num("sigma", loc.sigma),
               Str("summary", << "Monte Carlo", loc.n_paths, final_mean,
                                 expected_return, prob_profit >>),
               Nested("percentiles",
                      [p5 |-> [j \in 1..steps |-> Percentile(col(j), 5)],
                       p25 |-> [j \in 1..steps |-> Percentile(col(j), 25)],
                       p75 |-> [j \in 1..steps |-> Percentile(col(j), 75)],
                       p95 |-> [j \in 1..steps |-> Percentile(col(j), 95)]]) >>)

\* simulate_monte_carlo run without interruption from generator state s.
simulate_monte_carlo(parameters, y0, tspan, steps, s) ==
    LET loc == mc_setup(parameters, y0, tspan, steps, s)
        run == mc_loop(loc, [paths |-> loc.paths, state |-> loc.state], 1, steps - 1)
    IN  [result |-> mc_finish(loc, run.paths), state |-> run.state]
\* ------------------------------------------------------------- server.py
Domains == {"epidemiology", "physics", "finance", "custom"}
ModelTypes == {"SIR", "LotkaVolterra", "Logistic", "Projectile", "MonteCarlo"}
Methods == {"RK45", "RK23", "DOP853"}

\* A registry with one more entry than the code's: C6 must tell the two apart.
SOLVERS_with_custom_sir ==
    (<< "epidemiology", "SIR" >> :> "simulate_sir")
    @@ (<< "epidemiology", "LotkaVolterra" >> :> "simulate_lotka_volterra")
    @@ (<< "epidemiology", "Logistic" >> :> "simulate_logistic")
    @@ (<< "physics", "Projectile" >> :> "simulate_projectile")
    @@ (<< "finance", "MonteCarlo" >> :> "simulate_monte_carlo")
    @@ (<< "custom", "SIR" >> :> "simulate_sir")
\* Lines 108-114: the solver registry.
SOLVERS ==
    (<< "epidemiology", "SIR" >> :> "simulate_sir")
    @@ (<< "epidemiology", "LotkaVolterra" >> :> "simulate_lotka_volterra")
    @@ (<< "epidemiology", "Logistic" >> :> "simulate_logistic")
    @@ (<< "physics", "Projectile" >> :> "simulate_projectile")
    @@ (<< "finance", "MonteCarlo" >> :> "simulate_monte_carlo")

Key(spec) == << spec.domain, spec.model_type >>

\* str.lower() of the model names.
Lower(model_type) ==
    CASE model_type = "SIR" -> "sir"
      [] model_type = "LotkaVolterra" -> "lotkavolterra"
      [] model_type = "Logistic" -> "logistic"
      [] model_type = "Projectile" -> "projectile"
      [] model_type = "MonteCarlo" -> "montecarlo"

\* A validator that lets every step count through: C12 must tell it from the
\* code.
min_steps_any(v) == TRUE
\* TimeSpan._min_steps
min_steps_ok(v) == v >= MinSteps

\* dict[k] = v
DictSet(d, k, v) ==
    IF Has(d, k) THEN [i \in 1..Len(d) |-> IF d[i][1] = k THEN << k, v >> ELSE d[i]]
    ELSE Append(d, << k, v >>)

\* The tool's results.  An exception that leaves simulate_model is "raised".
NoResponse == [status |-> "none", message |-> << >>, summary |-> << >>, artifacts |-> << >>,
               metrics |-> << >>, columns |-> << >>, data |-> << >>, has_data |-> FALSE]
ErrorResult(text) == [NoResponse EXCEPT !.status = "error", !.message = text]
RaisedOut(type) == [NoResponse EXCEPT !.status = "raised", !.message = << type >>]
SimulateModelOutput(summary, artifacts, metrics, columns, data_points) ==
    [status |-> "success", message |-> << "Simulation completed" >>, summary |-> summary,
     artifacts |-> artifacts, metrics |-> metrics, columns |-> columns,
     data |-> data_points.rows, has_data |-> data_points.present]

\* A server without the preview cap: C5 must tell it from the code.
ActualSteps_uncapped(time_span) == time_span.steps
\* Lines 208-212: the preview cap on the step count.
ActualSteps(time_span) ==
    IF time_span.preview_mode THEN Min2(time_span.steps, PreviewCap) ELSE time_span.steps

\* Lines 218-224: the call of the registered ODE solver; outcome is what the
\* integrator reports.
CallSolver(solver, spec, steps, outcome) ==
    LET tspan == << spec.time_span.start, spec.time_span.end >>
    IN  CASE solver = "simulate_sir" ->
                simulate_sir(spec.parameters, spec.initial_conditions, tspan, steps, outcome)
          [] solver = "simulate_lotka_volterra" ->
                simulate_lotka_volterra(spec.parameters, spec.initial_conditions, tspan,
                                        steps, outcome)
          [] solver = "simulate_logistic" ->
                simulate_logistic(spec.parameters, spec.initial_conditions, tspan, steps,
                                  outcome)
          [] solver = "simulate_projectile" ->
                simulate_projectile(spec.parameters, spec.initial_conditions, tspan, steps,
                                    outcome)

\* Line 239: headers = list(spec.initial_conditions.keys())
Headers(spec) == Keys(spec.initial_conditions)

\* Lines 262-276: one row per time index; Y[idx, i] with idx past the rows of
\* Y is an IndexError, caught, which leaves the list as it stands (empty).
DataPoint(t, Y, headers, i, idx, point) ==
    DictSet(point, headers[idx], Y[idx][i])
RECURSIVE PointLoop(_, _, _, _, _)
PointLoop(t, Y, headers, i, idx) ==
    IF idx = 0 THEN << << "t", t[i] >> >>
    ELSE DataPoint(t, Y, headers, i, idx, PointLoop(t, Y, headers, i, idx - 1))
DataPoints(spec, t, Y, headers) ==
    IF ~spec.return_data THEN [present |-> FALSE, rows |-> << >>]
    ELSE IF Len(headers) > Len(Y) /\ Len(t) > 0 THEN [present |-> TRUE, rows |-> << >>]
    ELSE [present |-> TRUE,
          rows |-> AsTuple([i \in 1..Len(t) |-> AsTuple(PointLoop(t, Y, headers, i, Len(headers)))])]

\* Line 284: {k: float(v) for k, v in metrics.items() if k != "summary"};
\* float() of a value that is not a number is a TypeError.
Floatable(item) == item[2].type \in {"float", "int"}
ToFloat(item) == IF item[2].type = "int" THEN PyFloat(item[2].v) ELSE item[2].v
MetricsView(metrics) ==
    LET kept == SelectSeq(metrics, LAMBDA item : item[1] # "summary")
    IN  IF \E i \in 1..Len(kept) : ~Floatable(kept[i])
        THEN [raised |-> TRUE, dict |-> << >>]
        ELSE [raised |-> FALSE,
              dict |-> AsTuple([i \in 1..Len(kept) |-> << kept[i][1], ToFloat(kept[i]) >>])]

\* Lines 278-297: the success response, unless building it raises.
BuildResponse(metrics, artifacts, headers, data_points) ==
    LET view == MetricsView(metrics)
        summary == IF Has(metrics, "summary") THEN Get(metrics, "summary", << >>).v ELSE << >>
    IN  IF view.raised THEN RaisedOut("TypeError")
        ELSE SimulateModelOutput(summary, artifacts, view.dict, << "t" >> \o headers,
                                 data_points)

\* Paths of the two artifacts of a run.
CsvPath(run_id) == << run_id, "csv" >>
PngPath(run_id) == << run_id, "png" >>
\* write_plot: Y[idx, :] for every header; more headers than rows raises.
PlotIndexError(Y, headers) == Len(headers) > Len(Y)

\* ------------------------------------------------------------------ state
VARIABLES
    th,         \* per worker thread: the locals of its simulate_model call
    rng,        \* state of the process-wide NumPy generator
    worlds,     \* the generator states possible over all initial entropies
    disk,       \* files in OUT_DIR
    completed,  \* what the solvers of the finished requests returned
    received    \* number of requests taken so far

vars == << th, rng, worlds, disk, completed, received >>

NoSpec == << >>
\* No integrator call has reported yet.
NoOutcome == [kind |-> "none", message |-> ""]
IdleThread ==
    [pc |-> "idle", spec |-> NoSpec, run_id |-> << >>, actual_steps |-> 0,
     t |-> << >>, Y |-> << >>, metrics |-> << >>, solved |-> FALSE,
     loc |-> << >>, paths |-> << >>, i |-> 0,
     headers |-> << >>, artifacts |-> << >>, data_points |-> [present |-> FALSE, rows |-> << >>],
     response |-> NoResponse, validated |-> FALSE,
     calls |-> << >>, ivp |-> NoOutcome, wrote |-> {}, attempts |-> 0]

Init ==
    /\ th = [self \in Threads |-> IdleThread]
    /\ rng \in Entropy
    /\ worlds = Entropy
    /\ disk = {}
    /\ completed = {}
    /\ received = 0
\* ---------------------------------------------------------------- actions
Me(self) == th[self]

\* The thread is free and the process takes another request.
CanReceive(self, limit) == Me(self).pc = "idle" /\ received < limit

\* A tool call arrives.  The framework validates the arguments against
\* SimulateModelInput first (TimeSpan._min_steps); simulate_model then starts
\* and names the run (line 172).
Receive(self, r, stamp) ==
    /\ received' = received + 1
    /\ th' = [th EXCEPT ![self] =
                IF min_steps_ok(r.time_span.steps)
                THEN [IdleThread EXCEPT !.pc = "schema", !.spec = r,
                         !.run_id = << Lower(r.model_type), stamp[1], stamp[2] >>]
                ELSE [IdleThread EXCEPT !.pc = "done", !.spec = r,
                         !.response = ErrorResult(<< "validation error",
                                                     "steps must be >= 2" >>)]]
    /\ UNCHANGED << rng, worlds, disk, completed >>

\* Lines 186-197: no schema file, or the request passes it.
SchemaPass(self) ==
    /\ Me(self).pc = "schema"
    /\ th' = [th EXCEPT ![self].pc = "lookup", ![self].validated = TRUE]
    /\ UNCHANGED << rng, worlds, disk, completed, received >>

\* Lines 192-197: the schema file exists and json_validate rejects the request.
SchemaReject(self) ==
    /\ Me(self).pc = "schema"
    /\ th' = [th EXCEPT ![self].pc = "done",
                 ![self].response = ErrorResult(<< "JSON schema validation failed" >>)]
    /\ UNCHANGED << rng, worlds, disk, completed, received >>

\* Lines 199-212: registry lookup, then the preview cap.
Lookup(self) ==
    /\ Me(self).pc = "lookup"
    /\ th' = [th EXCEPT ![self] =
                IF Key(Me(self).spec) \notin DOMAIN SOLVERS
                THEN [@ EXCEPT !.pc = "done",
                         !.response = ErrorResult(<< "No solver registered for",
                                                     Me(self).spec.domain,
                                                     Me(self).spec.model_type >>)]
                ELSE [@ EXCEPT !.pc = "solve",
                         !.actual_steps = ActualSteps(Me(self).spec.time_span)]]
    /\ UNCHANGED << rng, worlds, disk, completed, received >>

\* One solver invocation, as the request's log of calls records it.
Call(me) == [solver |-> SOLVERS[Key(me.spec)], steps |-> me.actual_steps,
             method |-> me.spec.method]

\* The thread after the solver returned res (lines 226-239), or after it
\* raised (lines 231-237).
AfterSolver(me, res) ==
    IF res.raised
    THEN [me EXCEPT !.pc = "done",
             !.response = ErrorResult(<< "Solver error", res.exc[1], res.exc[2] >>)]
    ELSE [me EXCEPT !.pc = "artifacts", !.t = res.t, !.Y = res.Y, !.metrics = res.metrics,
             !.solved = TRUE, !.headers = Headers(me.spec)]

\* Lines 214-237 for the four ODE models.
SolveODE(self, outcome) ==
    /\ Me(self).pc = "solve"
    /\ SOLVERS[Key(Me(self).spec)] # "simulate_monte_carlo"
    /\ LET me == [Me(self) EXCEPT !.calls = Append(@, Call(Me(self))), !.ivp = outcome]
           res == CallSolver(SOLVERS[Key(me.spec)], me.spec, me.actual_steps, outcome)
       IN  th' = [th EXCEPT ![self] = AfterSolver(me, res)]
    /\ UNCHANGED << rng, worlds, disk, completed, received >>

\* Lines 214-237 for Monte Carlo when the process runs one request at a
\* time: the whole of simulate_monte_carlo on the process-wide generator.
SolveMC(self) ==
    /\ Me(self).pc = "solve"
    /\ SOLVERS[Key(Me(self).spec)] = "simulate_monte_carlo"
    /\ LET me == [Me(self) EXCEPT !.calls = Append(@, Call(Me(self)))]
           tspan == << me.spec.time_span.start, me.spec.time_span.end >>
           run(s) == simulate_monte_carlo(me.spec.parameters, me.spec.initial_conditions,
                                          tspan, me.actual_steps, s)
       IN  /\ th' = [th EXCEPT ![self] = AfterSolver(me, run(rng).result)]
           /\ rng' = run(rng).state
           /\ worlds' = {run(w).state : w \in worlds}
    /\ UNCHANGED << disk, completed, received >>

\* simulate_monte_carlo in a process with several worker threads, lines
\* 31-50: parameters, np.random.seed, the grid, the zeroed paths.
MCSetup(self) ==
    /\ Me(self).pc = "solve"
    /\ SOLVERS[Key(Me(self).spec)] = "simulate_monte_carlo"
    /\ LET me == Me(self)
           tspan == << me.spec.time_span.start, me.spec.time_span.end >>
           setup(s) == mc_setup(me.spec.parameters, me.spec.initial_conditions, tspan,
                                me.actual_steps, s)
       IN  /\ th' = [th EXCEPT ![self] =
                        [me EXCEPT !.pc = "mc_loop", !.calls = Append(@, Call(me)),
                            !.loc = setup(rng), !.paths = setup(rng).paths, !.i = 1]]
           /\ rng' = setup(rng).state
           /\ worlds' = {setup(w).state : w \in worlds}
    /\ UNCHANGED << disk, completed, received >>

\* Lines 52-60: one pass of the loop; other threads may draw between passes.
MCIter(self) ==
    /\ Me(self).pc = "mc_loop"
    /\ Me(self).i < Me(self).actual_steps
    /\ LET me == Me(self)
           nxt(s) == mc_iter(me.loc, me.paths, me.i, s)
       IN  /\ th' = [th EXCEPT ![self].paths = nxt(rng).paths, ![self].i = me.i + 1]
           /\ rng' = nxt(rng).state
           /\ worlds' = {nxt(w).state : w \in worlds}
    /\ UNCHANGED << disk, completed, received >>

\* Lines 62-121: statistics and metrics, and the return to simulate_model.
MCFinish(self) ==
    /\ Me(self).pc = "mc_loop"
    /\ Me(self).i >= Me(self).actual_steps
    /\ th' = [th EXCEPT ![self] =
                 AfterSolver([Me(self) EXCEPT !.loc = << >>, !.paths = << >>, !.i = 0],
                             mc_finish(Me(self).loc, Me(self).paths))]
    /\ UNCHANGED << rng, worlds, disk, completed, received >>

\* Lines 258-259: save_artifacts is false.
SkipArtifacts(self) ==
    /\ Me(self).pc = "artifacts"
    /\ ~Me(self).spec.save_artifacts
    /\ th' = [th EXCEPT ![self].pc = "data"]
    /\ UNCHANGED << rng, worlds, disk, completed, received >>

\* Line 246: write_csv; ok is whether the file system lets the write succeed.
WriteCsv(self, ok) ==
    /\ Me(self).pc = "artifacts"
    /\ Me(self).spec.save_artifacts
    /\ th' = [th EXCEPT ![self] =
                 IF ok THEN [@ EXCEPT !.pc = "plot", !.attempts = @ + 1,
                                !.wrote = @ \cup {CsvPath(Me(self).run_id)}]
                 ELSE [@ EXCEPT !.pc = "data", !.attempts = @ + 1]]
    /\ disk' = IF ok THEN disk \cup {CsvPath(Me(self).run_id)} ELSE disk
    /\ UNCHANGED << rng, worlds, completed, received >>

\* Lines 249-257: write_plot, then the artifact list; a failure leaves the
\* list empty.
WritePlot(self, ok) ==
    /\ Me(self).pc = "plot"
    /\ LET done == ok /\ ~PlotIndexError(Me(self).Y, Me(self).headers)
       IN  /\ th' = [th EXCEPT ![self] =
                        IF done
                        THEN [@ EXCEPT !.pc = "data", !.attempts = @ + 1,
                                 !.wrote = @ \cup {PngPath(Me(self).run_id)},
                                 !.artifacts = << << "csv", CsvPath(Me(self).run_id) >>,
                                                  << "plot", PngPath(Me(self).run_id) >> >>]
                        ELSE [@ EXCEPT !.pc = "data", !.attempts = @ + 1]]
           /\ disk' = IF done THEN disk \cup {PngPath(Me(self).run_id)} ELSE disk
    /\ UNCHANGED << rng, worlds, completed, received >>

\* Lines 261-276.
ShapeData(self) ==
    /\ Me(self).pc = "data"
    /\ th' = [th EXCEPT ![self].pc = "output",
                 ![self].data_points = DataPoints(Me(self).spec, Me(self).t, Me(self).Y,
                                                  Me(self).headers)]
    /\ UNCHANGED << rng, worlds, disk, completed, received >>

\* Lines 278-297.
BuildOutput(self) ==
    /\ Me(self).pc = "output"
    /\ th' = [th EXCEPT ![self].pc = "done",
                 ![self].response = BuildResponse(Me(self).metrics, Me(self).artifacts,
                                                  Me(self).headers, Me(self).data_points)]
    /\ UNCHANGED << rng, worlds, disk, completed, received >>

\* The call is over: its locals are dropped.  What its solver returned is
\* kept for comparison with other runs.
Finish(self) ==
    /\ Me(self).pc = "done"
    /\ th' = [th EXCEPT ![self] = IdleThread]
    /\ completed' = IF Me(self).solved
                    THEN completed \cup {[spec |-> Me(self).spec, t |-> Me(self).t,
                                          Y |-> Me(self).Y, metrics |-> Me(self).metrics]}
                    ELSE completed
    /\ UNCHANGED << rng, worlds, disk, received >>
\* --------------------------------------------------------------- requests
\* initial_conditions mappings: empty, the SIR variables in the model's order,
\* two of them in another order, the projectile variables, x and y swapped,
\* the logistic variable, and S with a key no model defines.
InitialConditionChoices ==
    { << >>,
      << << "S", (9 * FP) \div 10 >>, << "I", FP \div 10 >>, << "R", 0 >> >>,
      << << "I", FP \div 10 >>, << "S", (9 * FP) \div 10 >> >>,
      << << "x", 0 >>, << "y", 0 >>, << "vx", 10 * FP >>, << "vy", 10 * FP >> >>,
      << << "y", 5 * FP >>, << "x", 10 * FP >> >>,
      << << "P", 20 * FP >> >>,
      << << "S", 100 * FP >>, << "zz", FP >> >> }
\* parameters mappings of the Monte Carlo requests (seeded and unseeded).
MCParameterChoices ==
    { << << "n_paths", PyFloat(2) >>, << "seed", PyFloat(1) >> >>,
      << << "n_paths", PyFloat(2) >> >>,
      << << "n_paths", PyFloat(1) >>, << "seed", PyFloat(2) >>, << "mu", 0 >>,
         << "sigma", 0 >> >> }
ParameterChoices(model_type) ==
    IF model_type = "MonteCarlo" THEN MCParameterChoices ELSE { << >> }
SpanChoices == { << 0, 10 * FP >>, << 2 * FP, 5 * FP >> }
StepChoices == {MinSteps - 1, MinSteps, MinSteps + 1, PreviewCap, PreviewCap + ExtraSteps}
TimeSpans == { [start |-> sp[1], end |-> sp[2], steps |-> n, preview_mode |-> pm] :
                  sp \in SpanChoices, n \in StepChoices, pm \in BOOLEAN }

\* The requests of a process that takes one request.  Every field varies for
\* the short runs of the registered (domain, model_type) pairs.  The runs at
\* and above the preview cap vary in model, step count, preview_mode and
\* return_data; for the unregistered pairs the fields that no code before the
\* registry lookup reads are fixed.
AllRequests ==
    [domain : Domains, model_type : ModelTypes,
     parameters : MCParameterChoices \cup { << >> },
     initial_conditions : InitialConditionChoices,
     time_span : TimeSpans, method : {"RK45"},
     return_data : BOOLEAN, save_artifacts : BOOLEAN]
LongRun(r) == r.time_span.steps >= PreviewCap
Requests ==
    { r \in AllRequests :
          /\ r.parameters \in ParameterChoices(r.model_type)
          /\ (Key(r) \in DOMAIN SOLVERS /\ LongRun(r)) =>
                /\ Keys(r.initial_conditions) = << "S", "I", "R" >>
                /\ r.time_span.start # 0
                /\ ~r.save_artifacts
          /\ Key(r) \notin DOMAIN SOLVERS =>
                /\ Len(r.initial_conditions) \in {0, 3}
                /\ r.parameters \in { << >>, << << "n_paths", PyFloat(2) >> >> }
                /\ r.time_span.start = 0
                /\ r.time_span.steps \in {MinSteps - 1, MinSteps + 1, PreviewCap + ExtraSteps} }

\* run_id's timestamp and random suffix.
RunStamps == { << 0, 0 >> }

Next ==
    \E self \in {1} :
        \/ /\ CanReceive(self, 1)
           /\ \E r \in Requests, stamp \in RunStamps : Receive(self, r, stamp)
        \/ SchemaPass(self)
        \/ SchemaReject(self)
        \/ Lookup(self)
        \/ \E outcome \in IvpOutcomes : SolveODE(self, outcome)
        \/ SolveMC(self)
        \/ SkipArtifacts(self)
        \/ \E ok \in BOOLEAN : WriteCsv(self, ok)
        \/ \E ok \in BOOLEAN : WritePlot(self, ok)
        \/ ShapeData(self)
        \/ BuildOutput(self)
        \/ Finish(self)

Spec == Init /\ [][Next]_vars

\* ------------------------------------------- several requests at one time
\* Monte Carlo requests of a process whose worker threads run at one time:
\* seeded and unseeded, one or two paths, MinSteps..MaxMCSteps grid points.
ConcRequests ==
    [domain : {"finance"}, model_type : {"MonteCarlo"},
     parameters : MCParameterChoices,
     initial_conditions : { << >> },
     time_span : { [start |-> 0, end |-> 10 * FP, steps |-> n, preview_mode |-> FALSE] :
                      n \in MinSteps..MaxMCSteps },
     method : {"RK45"}, return_data : {FALSE}, save_artifacts : {FALSE}]

NextConc ==
    \E self \in Threads :
        \/ /\ CanReceive(self, MaxRequests)
           /\ \E r \in ConcRequests, stamp \in RunStamps : Receive(self, r, stamp)
        \/ SchemaPass(self)
        \/ SchemaReject(self)
        \/ Lookup(self)
        \/ MCSetup(self)
        \/ MCIter(self)
        \/ MCFinish(self)
        \/ SkipArtifacts(self)
        \/ ShapeData(self)
        \/ BuildOutput(self)
        \/ Finish(self)

SpecConc == Init /\ [][NextConc]_vars

\* --------------------------------------------- runs that write artifacts
\* What datetime.utcnow() to the second and uuid.uuid4().hex[:8] can give a
\* run: any second of the clock and any value of the suffix.
WideRunStamps == (0..MaxStamp) \X (0..MaxStamp)
\* Requests with save_artifacts for two of the models.
RunRequests ==
    [domain : {"epidemiology"}, model_type : {"SIR", "Logistic"},
     parameters : { << >> }, initial_conditions : { << >> },
     time_span : { [start |-> 0, end |-> FP, steps |-> MinSteps, preview_mode |-> FALSE] },
     method : {"RK45"}, return_data : {FALSE}, save_artifacts : {TRUE}]

NextRuns ==
    \E self \in Threads :
        \/ /\ CanReceive(self, MaxRequests)
           /\ \E r \in RunRequests, stamp \in WideRunStamps : Receive(self, r, stamp)
        \/ SchemaPass(self)
        \/ SchemaReject(self)
        \/ Lookup(self)
        \/ \E outcome \in IvpOutcomes : SolveODE(self, outcome)
        \/ \E ok \in BOOLEAN : WriteCsv(self, ok)
        \/ \E ok \in BOOLEAN : WritePlot(self, ok)
        \/ ShapeData(self)
        \/ BuildOutput(self)
        \/ Finish(self)

SpecRuns == Init /\ [][NextRuns]_vars

\* ------------------------------------------ requests that probe the solvers
\* Requests whose parameters and initial_conditions have each name absent,
\* present, present as zero, or unknown to the model; two grids, the shortest
\* one and one of GridSteps points a time unit apart.
ModelSpans ==
    { [start |-> 0, end |-> FP, steps |-> MinSteps, preview_mode |-> FALSE],
      [start |-> 0, end |-> (GridSteps - 1) * FP, steps |-> GridSteps,
       preview_mode |-> FALSE] }
Optional(name, values) == { << >> } \cup { << << name, v >> >> : v \in values }
ProjectileInitialConditions ==
    { hy \o vx \o vy : hy \in Optional("y", {2 * FP}),
                       vx \in Optional("vx", {0, 3 * FP}),
                       vy \in Optional("vy", {0, 5 * FP, -5 * FP}) }
ModelInputs(model_type) ==
    CASE model_type = "Projectile" ->
            [parameters : { << >>,
                            << << "v0", 10 * FP >>, << "angle", 30 * FP >> >>,
                            << << "v0", 10 * FP >>, << "angle", 30 * FP >>, << "zz", FP >> >> },
             initial_conditions : ProjectileInitialConditions]
      [] model_type = "Logistic" ->
            [parameters : { << >>, << << "r", 0 >> >>, << << "K", 20 * FP >> >>,
                            << << "K", 20 * FP >>, << "zz", FP >> >> },
             initial_conditions : { << >>, << << "P", 50 * FP >> >>,
                                    << << "P", 50 * FP >>, << "zz", FP >> >> }]
      [] model_type = "SIR" ->
            [parameters : { << >>, << << "beta", FP \div 2 >> >>,
                            << << "beta", FP \div 2 >>, << "zz", FP >> >> },
             initial_conditions : { << >>, << << "I", FP \div 5 >> >>,
                                    << << "I", FP \div 5 >>, << "zz", FP >> >> }]
      [] model_type = "LotkaVolterra" ->
            [parameters : { << >>, << << "alpha", FP \div 2 >>, << "zz", FP >> >> },
             initial_conditions : { << >>, << << "y", 2 * FP >> >> }]
      [] model_type = "MonteCarlo" ->
            [parameters : { << << "mu", 0 >>, << "sigma", 0 >>, << "n_paths", PyFloat(2) >>,
                               << "seed", PyFloat(1) >> >>,
                            << << "mu", 0 >>, << "sigma", 0 >>, << "n_paths", PyFloat(1) >> >>,
                            << << "mu", 0 >>, << "sigma", 0 >>, << "n_paths", 0 >> >>,
                            << << "n_paths", PyFloat(2) >>, << "zz", FP >> >>,
                            << << "n_paths", PyFloat(2) >> >> },
             initial_conditions : { << >>, << << "S", 50 * FP >> >>,
                                    << << "S", 50 * FP >>, << "zz", FP >> >> }]
ModelRequests ==
    UNION { { [domain |-> key[1], model_type |-> key[2], parameters |-> inp.parameters,
               initial_conditions |-> inp.initial_conditions, time_span |-> ts,
               method |-> "RK45", return_data |-> TRUE, save_artifacts |-> FALSE] :
                 inp \in ModelInputs(key[2]), ts \in ModelSpans } :
            key \in DOMAIN SOLVERS }

\* Height sequences for the landing loop of projectile.py, around an initial
\* height of 0.
HeightSequences == UNION { [1..n -> {-FP, 0, FP}] : n \in 2..ScanLen }
\* Lines 89-93 of projectile.py on a height sequence.
LandingScan(self, y_vals) ==
    /\ received' = received + 1
    /\ th' = [th EXCEPT ![self] =
                 [IdleThread EXCEPT !.pc = "scan", !.Y = << y_vals >>,
                     !.i = LandingLoop(y_vals, 0, Len(y_vals), 2, Len(y_vals))]]
    /\ UNCHANGED << rng, worlds, disk, completed >>
\* The sequence is dropped.
ScanReturn(self) ==
    /\ Me(self).pc = "scan"
    /\ th' = [th EXCEPT ![self] = IdleThread]
    /\ UNCHANGED << rng, worlds, disk, completed, received >>

NextModels ==
    \E self \in {1} :
        \/ /\ CanReceive(self, 1)
           /\ \E r \in ModelRequests, stamp \in RunStamps : Receive(self, r, stamp)
        \/ /\ CanReceive(self, 1)
           /\ \E y_vals \in HeightSequences : LandingScan(self, y_vals)
        \/ ScanReturn(self)
        \/ SchemaPass(self)
        \/ SchemaReject(self)
        \/ Lookup(self)
        \/ \E outcome \in IvpOutcomes : SolveODE(self, outcome)
        \/ MCSetup(self)
        \/ MCIter(self)
        \/ MCFinish(self)
        \/ SkipArtifacts(self)
        \/ ShapeData(self)
        \/ BuildOutput(self)
        \/ Finish(self)

SpecModels == Init /\ [][NextModels]_vars

\* ------------------------------------------------------------- properties
\* The call of thread self has reached its end (a return or a raise).
Done(self) == Me(self).pc = "done"
Status(self) == Me(self).response.status
AllIdle == \A self \in Threads : Me(self).pc = "idle"

\* The order in which each solver stacks its state variables into Y.
StateNames(model_type) ==
    CASE model_type = "SIR" -> << "S", "I", "R" >>
      [] model_type = "LotkaVolterra" -> << "x", "y" >>
      [] model_type = "Logistic" -> << "P" >>
      [] model_type = "Projectile" -> << "x", "y", "vx", "vy" >>
      [] model_type = "MonteCarlo" -> << "S" >>

\* The numeric entries of a metrics bundle, as floats, in the bundle's order.
NumericView(metrics) ==
    LET kept == SelectSeq(metrics, Floatable)
    IN  AsTuple([i \in 1..Len(kept) |-> << kept[i][1], ToFloat(kept[i]) >>])

\* C1: every call with a validated request ends by returning a result whose
\* status is success or error, no exception leaves simulate_model, and a
\* (finance, MonteCarlo) request whose path simulation succeeded returns
\* success.
C1_StructuredResult ==
    \A self \in Threads :
        (Done(self) /\ Me(self).validated) =>
            /\ Status(self) \in {"success", "error"}
            /\ (Me(self).solved /\ Key(Me(self).spec) = << "finance", "MonteCarlo" >>)
                  => Status(self) = "success"

\* C2: for every request whose solver succeeded, the response's metrics
\* mapping is the numeric-only view of the solver's metrics bundle (summary
\* and the nested percentiles left out, every numeric entry present).
C2_NumericMetrics ==
    \A self \in Threads :
        (Done(self) /\ Me(self).solved) =>
            Me(self).response.metrics = NumericView(Me(self).metrics)

\* C3: in every success response the columns are "t" followed by the model's
\* state-variable names in the model's order, whatever the keys of the
\* request's initial_conditions are.
C3_ModelColumns ==
    \A self \in Threads :
        (Done(self) /\ Status(self) = "success") =>
            Me(self).response.columns = << "t" >> \o StateNames(Me(self).spec.model_type)

\* C4: with return_data a success response holds one row per time index, and
\* row i gives under each state variable's name the value of that variable's
\* row of the state matrix at i; without return_data there is no data field.
C4_RowsByVariable ==
    \A self \in Threads :
        (Done(self) /\ Status(self) = "success") =>
            LET me == Me(self)
                names == StateNames(me.spec.model_type)
                rows == me.response.data
            IN  IF me.spec.return_data
                THEN /\ me.response.has_data
                     /\ Len(rows) = Len(me.t)
                     /\ \A i \in 1..Len(rows) : \A k \in 1..Len(names) :
                           /\ Has(rows[i], names[k])
                           /\ Get(rows[i], names[k], 0) = me.Y[k][i]
                ELSE ~me.response.has_data

\* C5: a successful run has as many time points as the effective step count
\* (the requested steps, capped at 100 under preview_mode), the solver was
\* called once with that count, and the first and last time points are the
\* requested start and end.
C5_TimePoints ==
    \A self \in Threads :
        Me(self).solved =>
            LET me == Me(self)
                ts == me.spec.time_span
                effective == IF ts.preview_mode /\ ts.steps > PreviewCap
                             THEN PreviewCap ELSE ts.steps
            IN  /\ Len(me.t) = effective
                /\ Len(me.calls) = 1
                /\ me.calls[1].steps = effective
                /\ me.t[1] = ts.start
                /\ me.t[Len(me.t)] = ts.end
\* A preview request above the cap, from a start other than 0, has returned
\* success with exactly 100 time points.
C5_Witness ==
    \E self \in Threads :
        /\ Done(self) /\ Status(self) = "success"
        /\ Me(self).spec.time_span.preview_mode
        /\ Me(self).spec.time_span.steps > PreviewCap
        /\ Me(self).spec.time_span.start # 0
        /\ Len(Me(self).t) = PreviewCap

\* C6: a validated request for a (domain, model_type) pair outside the five
\* registered ones ends with an error result naming the pair; no solver was
\* called, nothing was written and no data rows were built.
C6_UnregisteredPair ==
    \A self \in Threads :
        (Done(self) /\ Me(self).validated
           /\ Key(Me(self).spec) \notin { << "epidemiology", "SIR" >>,
                                         << "epidemiology", "LotkaVolterra" >>,
                                         << "epidemiology", "Logistic" >>,
                                         << "physics", "Projectile" >>,
                                         << "finance", "MonteCarlo" >> }) =>
            /\ Me(self).response = ErrorResult(<< "No solver registered for",
                                                  Me(self).spec.domain,
                                                  Me(self).spec.model_type >>)
            /\ Me(self).calls = << >>
            /\ ~Me(self).solved
            /\ Me(self).attempts = 0 /\ Me(self).wrote = {}
            /\ Me(self).data_points = [present |-> FALSE, rows |-> << >>]
\* A request for SIR under domain custom has ended with an error result.
C6_Witness ==
    \E self \in Threads :
        /\ Done(self) /\ Me(self).validated
        /\ Key(Me(self).spec) = << "custom", "SIR" >>
        /\ Status(self) = "error"

\* C7: no request calls its solver more than once, and a request whose
\* integrator reported failure ends with an error result that carries the
\* integrator's message, with nothing written and no artifact listed.
C7_IntegratorFailure ==
    \A self \in Threads :
        /\ Len(Me(self).calls) <= 1
        /\ (Done(self) /\ Me(self).ivp.kind = "failure") =>
              /\ Me(self).response = ErrorResult(<< "Solver error", "RuntimeError",
                                                    Me(self).ivp.message >>)
              /\ Len(Me(self).calls) = 1
              /\ Me(self).attempts = 0 /\ Me(self).wrote = {}
              /\ disk = {}
\* The integrator reported "step size too small" and the request has ended
\* with an error result.
C7_Witness ==
    \E self \in Threads :
        /\ Done(self) /\ Me(self).ivp = [kind |-> "failure", message |-> "step size too small"]
        /\ Status(self) = "error"
        /\ Len(Me(self).calls) = 1

\* C8: a write is attempted only with save_artifacts and after the solver
\* succeeded; when a write failed the response is still success, lists no
\* artifact, and has the metrics, columns and data of the run.
C8_ArtifactFailureKeepsSuccess ==
    \A self \in Threads :
        /\ Me(self).attempts > 0 => (Me(self).spec.save_artifacts /\ Me(self).solved)
        /\ (Done(self) /\ Me(self).attempts > 0 /\ Cardinality(Me(self).wrote) < 2) =>
              /\ Status(self) = "success"
              /\ Me(self).response.artifacts = << >>
              /\ Me(self).response.metrics = NumericView(Me(self).metrics)
              /\ Me(self).response.columns = << "t" >> \o Me(self).headers
              /\ Me(self).response.data = Me(self).data_points.rows

\* C9: two finished Monte Carlo runs of the same request with a seed have the
\* same time points, mean path and metrics, whatever ran beside them.
C9_SeededRunsAgree ==
    \A a \in completed : \A b \in completed :
        (a.spec = b.spec /\ a.spec.model_type = "MonteCarlo"
           /\ Has(a.spec.parameters, "seed")) =>
            (a.t = b.t /\ a.Y = b.Y /\ a.metrics = b.metrics)

\* An unseeded Monte Carlo request with one path.
ProbeParameters == << << "n_paths", PyFloat(1) >> >>
\* The results that request can have when the generator is in one of states.
ProbeResults(states) ==
    { simulate_monte_carlo(ProbeParameters, << >>, << 0, FP >>, MinSteps, w).result :
          w \in states }
\* C10: when no request is running, the results an unseeded Monte Carlo
\* request can produce are those it can produce in a fresh process, whatever
\* requests completed before.
C10_NoResidue ==
    AllIdle => ProbeResults(worlds) = ProbeResults(Entropy)

\* C12: a request with steps < 2 ends in the validation error without having
\* passed validation, reached the registry lookup or called a solver, and
\* every solver call is made with a step count of at least 2.
C12_StepsAtLeastTwo ==
    \A self \in Threads :
        /\ (Me(self).spec # NoSpec /\ Me(self).spec.time_span.steps < 2) =>
              /\ Done(self)
              /\ Me(self).response = ErrorResult(<< "validation error",
                                                    "steps must be >= 2" >>)
              /\ ~Me(self).validated
              /\ Me(self).actual_steps = 0
              /\ Me(self).calls = << >>
        /\ \A k \in 1..Len(Me(self).calls) : Me(self).calls[k].steps >= 2
\* A request with steps = 1 under preview_mode has been rejected, and so has
\* one without preview_mode.
C12_Witness ==
    \E self \in Threads :
        /\ Done(self) /\ Me(self).spec.time_span.steps = 1
        /\ Me(self).spec.time_span.preview_mode
        /\ Status(self) = "error" /\ ~Me(self).validated

\* C11: two runs that are under way at one time have different run
\* identifiers, and no run is about to write a CSV or plot file that another
\* run has written.
C11_RunIdsDiffer ==
    /\ \A a \in Threads : \A b \in Threads \ {a} :
          (Me(a).run_id # << >> /\ Me(b).run_id # << >>) => Me(a).run_id # Me(b).run_id
    /\ \A self \in Threads :
          /\ Me(self).pc = "artifacts" => CsvPath(Me(self).run_id) \notin disk
          /\ Me(self).pc \in {"artifacts", "plot"} => PngPath(Me(self).run_id) \notin disk

\* The value a finished run's metrics bundle holds under a name.
Metric(me, name) == Get(me.metrics, name, [type |-> "none", v |-> 0]).v
\* The request of thread self is for model_type and its solver has returned.
Solved(self, model_type) ==
    Me(self).solved /\ Me(self).spec.model_type = model_type

\* C13: the projectile's initial vx is the supplied vx when the key is
\* present and its value is not 0, and v0*cos(angle) otherwise; its initial vy
\* is the supplied vy when present and not 0, and v0*sin(angle) otherwise;
\* each by its own key alone.
C13_ProjectileVelocity ==
    \A self \in Threads :
        Solved(self, "Projectile") =>
            LET ic == Me(self).spec.initial_conditions
                v0 == Get(Me(self).spec.parameters, "v0", 20 * FP)
                angle == Get(Me(self).spec.parameters, "angle", 45 * FP)
                supplied(name) == \E i \in 1..Len(ic) : ic[i][1] = name /\ ic[i][2] # 0
                value(name) == ic[CHOOSE i \in 1..Len(ic) : ic[i][1] = name][2]
            IN  /\ Me(self).Y[3][1] = IF supplied("vx") THEN value("vx")
                                      ELSE Mul(v0, CosDeg(angle))
                /\ Me(self).Y[4][1] = IF supplied("vy") THEN value("vy")
                                      ELSE Mul(v0, SinDeg(angle))
\* A run with vx supplied as 0 and vy supplied as 5 has started from the
\* derived vx and the supplied vy.
C13_Witness ==
    \E self \in Threads :
        /\ Solved(self, "Projectile")
        /\ Has(Me(self).spec.initial_conditions, "vx")
        /\ Get(Me(self).spec.initial_conditions, "vx", 1) = 0
        /\ Get(Me(self).spec.initial_conditions, "vy", 0) = 5 * FP
        /\ Me(self).Y[3][1] > 0
        /\ Me(self).Y[4][1] = 5 * FP

\* The defaults of the models' state variables, in the order of StateNames;
\* the projectile's velocity components default to the launch velocity's.
StateDefaults(model_type) ==
    CASE model_type = "SIR" -> << (99 * FP) \div 100, FP \div 100, 0 >>
      [] model_type = "LotkaVolterra" -> << 10 * FP, 5 * FP >>
      [] model_type = "Logistic" -> << 10 * FP >>
      [] model_type = "Projectile" -> << 0, 0 >>
      [] model_type = "MonteCarlo" -> << 100 * FP >>
\* The parameters a model's metrics report as they were resolved: metric
\* name, parameter name, default.
EchoedParameters(model_type) ==
    CASE model_type = "Projectile" -> { << "v_initial", "v0", 20 * FP >>,
                                        << "angle_deg", "angle", 45 * FP >> }
      [] model_type = "Logistic" -> { << "K", "K", 100 * FP >> }
      [] model_type = "MonteCarlo" -> { << "S_initial", "S", 100 * FP >>,
                                        << "mu", "mu", FP \div 10 >>,
                                        << "sigma", "sigma", FP \div 5 >> }
      [] OTHER -> {}
\* The names a model reads from the two request mappings.
ParameterNames(model_type) ==
    CASE model_type = "SIR" -> {"beta", "gamma"}
      [] model_type = "LotkaVolterra" -> {"alpha", "beta", "delta", "gamma"}
      [] model_type = "Logistic" -> {"r", "K"}
      [] model_type = "Projectile" -> {"g", "v0", "angle"}
      [] model_type = "MonteCarlo" -> {"mu", "sigma", "n_paths", "seed"}
StateKeys(model_type) ==
    {StateNames(model_type)[k] : k \in 1..Len(StateNames(model_type))}
\* A mapping without the names outside a set.
Restrict(d, names) == AsTuple(SelectSeq(d, LAMBDA item : item[1] \in names))
\* The request without the names its model does not define.
KnownOnly(spec) ==
    [spec EXCEPT !.parameters = Restrict(@, ParameterNames(spec.model_type)),
                 !.initial_conditions = Restrict(@, StateKeys(spec.model_type))]

\* C14 (a): the trajectory of every model starts, for each state variable,
\* from the request's value when the name is in initial_conditions and from
\* the model's default otherwise.
C14_StateResolution(self) ==
    LET me == Me(self)
        names == StateNames(me.spec.model_type)
        v0 == Get(me.spec.parameters, "v0", 20 * FP)
        angle == Get(me.spec.parameters, "angle", 45 * FP)
        default(k) ==
            IF me.spec.model_type = "Projectile" /\ names[k] = "vx" THEN Mul(v0, CosDeg(angle))
            ELSE IF me.spec.model_type = "Projectile" /\ names[k] = "vy" THEN Mul(v0, SinDeg(angle))
            ELSE StateDefaults(me.spec.model_type)[k]
    IN  \A k \in 1..Len(names) :
            me.Y[k][1] = Get(me.spec.initial_conditions, names[k], default(k))
\* C14 (b): a parameter the metrics report has the request's value when the
\* name is in the mapping and the default otherwise.
C14_ParameterResolution(self) ==
    LET me == Me(self)
    IN  \A e \in EchoedParameters(me.spec.model_type) :
            Metric(me, e[1]) = Get(IF e[2] = "S" THEN me.spec.initial_conditions
                                   ELSE me.spec.parameters, e[2], e[3])
\* C14 (c): for an ODE model the trajectory and the metrics are those of the
\* request without its unknown names.
C14_UnknownNamesIgnored(self) ==
    LET me == Me(self)
    IN  me.spec.model_type # "MonteCarlo" =>
            CallSolver(SOLVERS[Key(me.spec)], KnownOnly(me.spec), me.actual_steps, me.ivp)
                = Returned(me.t, me.Y, me.metrics)
\* C14 (d): no step of the call after the solver has failed: the rows asked
\* for were built, one per time point.
C14_NoError(self) ==
    LET me == Me(self)
    IN  (Done(self) /\ me.spec.return_data) =>
            /\ Status(self) = "success"
            /\ Len(me.response.data) = Len(me.t)

Descents(height, h0) ==
    {i \in 2..Len(height) : height[i] < h0 /\ height[i - 1] >= h0}
\* The largest of them, and the last grid index when there is none.
LandingIndex(height, h0) ==
    IF Descents(height, h0) = {} THEN Len(height)
    ELSE CHOOSE i \in Descents(height, h0) : \A k \in Descents(height, h0) : k <= i

\* C15: the projectile's landing index is the largest index at which the
\* height is below the initial height and the height one index earlier is not,
\* and the last grid index when there is none; range, landing time and final
\* speed are the run's x, t and speed at that index.
C15_LandingIndex ==
    \A self \in Threads :
        /\ Me(self).pc = "scan" => Me(self).i = LandingIndex(Me(self).Y[1], 0)
        /\ Solved(self, "Projectile") =>
              LET me == Me(self)
                  idx == LandingIndex(me.Y[2], Get(me.spec.initial_conditions, "y", 0))
              IN  /\ Metric(me, "range") = me.Y[1][idx]
                  /\ Metric(me, "t_landing") = me.t[idx]
                  /\ Metric(me, "v_final")
                        = ISqrt(me.Y[3][idx] * me.Y[3][idx] + me.Y[4][idx] * me.Y[4][idx])
\* A run that lands before the end of its grid.
C15_Witness ==
    \E self \in Threads :
        /\ Solved(self, "Projectile")
        /\ Descents(Me(self).Y[2], Get(Me(self).spec.initial_conditions, "y", 0)) # {}
        /\ Metric(Me(self), "t_landing") < Me(self).t[Len(Me(self).t)]
        /\ Metric(Me(self), "t_landing") > Me(self).t[1]

\* The first grid index (counted from 1) at which a distance sequence has its
\* least value.
FirstClosest(dist) ==
    CHOOSE m \in 1..Len(dist) :
        /\ \A j \in 1..Len(dist) : dist[m] <= dist[j]
        /\ \A j \in 1..(m - 1) : dist[j] > dist[m]
\* |P - level| along a trajectory.
Distance(P_vals, level) == [j \in 1..Len(P_vals) |-> Abs(P_vals[j] - level)]

\* C16: the logistic t_halfway is the grid time of the first index at which
\* |P - 0.5 K| is least over the whole grid, and t_ninety that of the first
\* index at which |P - 0.9 K| is least; both are grid times, also when the
\* trajectory never reaches the level.
C16_ClosestGridTime ==
    \A self \in Threads :
        Solved(self, "Logistic") =>
            LET me == Me(self)
                K == Get(me.spec.parameters, "K", 100 * FP)
                half == Distance(me.Y[1], Mul(K, FP \div 2))
                ninety == Distance(me.Y[1], Mul(K, (9 * FP) \div 10))
            IN  /\ Metric(me, "t_halfway") = me.t[FirstClosest(half)]
                /\ Metric(me, "t_ninety") = me.t[FirstClosest(ninety)]
                /\ \E j \in 1..Len(me.t) : Metric(me, "t_halfway") = me.t[j]
                /\ \E j \in 1..Len(me.t) : Metric(me, "t_ninety") = me.t[j]
\* A growing population that stays under 0.9 K on the whole grid: t_ninety is
\* the last grid time, and t_halfway an earlier one.
C16_Witness ==
    \E self \in Threads :
        /\ Solved(self, "Logistic")
        /\ Len(Me(self).t) = GridSteps
        /\ \A j \in 1..Len(Me(self).t) :
              Me(self).Y[1][j] < Mul(Get(Me(self).spec.parameters, "K", 100 * FP), (9 * FP) \div 10)
        /\ Metric(Me(self), "t_ninety") = Me(self).t[Len(Me(self).t)]
        /\ Metric(Me(self), "t_halfway") < Metric(Me(self), "t_ninety")

\* The request of thread self is a Monte Carlo request with mu = 0 and
\* sigma = 0, both given in the request.
Driftless(self) ==
    /\ Me(self).spec # NoSpec
    /\ Me(self).spec.model_type = "MonteCarlo"
    /\ Has(Me(self).spec.parameters, "mu") /\ Get(Me(self).spec.parameters, "mu", 1) = 0
    /\ Has(Me(self).spec.parameters, "sigma") /\ Get(Me(self).spec.parameters, "sigma", 1) = 0

\* C17: in a Monte Carlo run with mu = 0 and sigma = 0 every path is S0 at
\* every time index filled so far, whatever the seed, the number of paths and
\* the step count; the mean path the run returns is S0 throughout and its
\* prob_profit_pct is 0.
C17_DriftlessPathsConstant ==
    \A self \in Threads :
        Driftless(self) =>
            LET me == Me(self)
                S0 == Get(me.spec.initial_conditions, "S", 100 * FP)
            IN  /\ me.pc = "mc_loop" =>
                      \A q \in 1..Len(me.paths) : \A j \in 1..me.i : me.paths[q][j] = S0
                /\ me.solved =>
                      /\ Len(me.Y[1]) = me.actual_steps
                      /\ \A j \in 1..Len(me.Y[1]) : me.Y[1][j] = S0
                      /\ Metric(me, "prob_profit_pct") = 0
\* A returned run of two paths over the long grid with mu = 0, sigma = 0 and
\* S0 = 50.
C17_Witness ==
    \E self \in Threads :
        /\ Driftless(self)
        /\ Me(self).solved
        /\ Metric(Me(self), "n_paths") = 2
        /\ Len(Me(self).t) = GridSteps
        /\ Get(Me(self).spec.initial_conditions, "S", 0) = 50 * FP
        /\ Me(self).Y[1][GridSteps] = 50 * FP
====
